---- MODULE Spec2Model ----
(***************************************************************************)
(* A model of Ubuntu_Requests.py: the image fetcher's filename resolution  *)
(* (get_filename_from_url), collision avoidance (safe_filename), the fetch *)
(* pipeline (fetch_image) and the driver loop (main).                      *)
(*                                                                         *)
(* Text is modelled as a sequence of one-character strings, so that        *)
(* parsing, splitting, stripping and formatting are computed character by  *)
(* character as the Python code and the library calls it makes compute     *)
(* them.  Positions are 1-based; a search that finds nothing returns 0     *)
(* (Python: 0-based and -1).                                               *)
(***************************************************************************)
EXTENDS Integers, Sequences, FiniteSets, TLC

VARIABLES
    pc,         \* main: "input" (at the prompt), "loop" (in the for loop), "done", "crashed"
    inputLine,  \* the line of text waiting on standard input
    urls,       \* main's list urls after the split, strip and filter
    idx,        \* how many elements of urls the for loop has handled
    calls,      \* the URLs fetch_image has been called with, oldest first
    closing,    \* how many times the closing message has been printed
    dirExists,  \* whether the directory Fetched_Images exists
    files,      \* the directory's entries: name -> [kind, content, readable]
    files0,     \* the directory's entries when the program started
    torn,       \* whether some write of this run failed after creating its file
    last,       \* what the most recent fetch_image call saw, did and printed
    call,       \* the arguments of a call of one of the two pure helpers
    ret         \* its result

vars == <<pc, inputLine, urls, idx, calls, closing, dirExists, files, files0, torn, last,
          call, ret>>

pipelineVars ==
    <<pc, inputLine, urls, idx, calls, closing, dirExists, files, files0, torn, last>>

helperVars == <<call, ret>>

----------------------------------------------------------------------------
(* Bounds of the model.                                                    *)

\* longest tail, in characters, appended to a URL prefix in SpecName
MaxTail == 4

\* largest numeric suffix of a name that may already be in a directory of SpecSafe
MaxSuffix == 2

\* most comma-separated items on the input line
MaxItems == 2

\* longest response body, in bytes
MaxBodyLen == 1

\* number of digest values of the stand-in for MD5 (the real range is 2^128)
DigestRange == 2

----------------------------------------------------------------------------
(* Strings.                                                                *)

\* str.find(c, start): the first position >= start holding c, 0 if none
Find(s, c, start) ==
    IF \E i \in start..Len(s) : s[i] = c
    THEN CHOOSE i \in start..Len(s) : s[i] = c /\ \A j \in start..(i - 1) : s[j] # c
    ELSE 0

\* str.rfind(c): the last position holding c, 0 if none
RFind(s, c) ==
    IF \E i \in 1..Len(s) : s[i] = c
    THEN CHOOSE i \in 1..Len(s) : s[i] = c /\ \A j \in (i + 1)..Len(s) : s[j] # c
    ELSE 0

\* c in s
Contains(s, c) == \E i \in 1..Len(s) : s[i] = c

\* s[:i-1] and s[i:] in 1-based positions
Before(s, i) == SubSeq(s, 1, i - 1)

From(s, i) == SubSeq(s, i, Len(s))

\* str.startswith(prefix)
StartsWith(s, prefix) ==
    /\ Len(prefix) <= Len(s)
    /\ SubSeq(s, 1, Len(prefix)) = prefix

Digit == <<"0", "1", "2", "3", "4", "5", "6", "7", "8", "9">>

\* str(n) for n >= 0, as the f-string formats counter
RECURSIVE IntToStr(_)
IntToStr(n) ==
    IF n < 10 THEN <<Digit[n + 1]>>
    ELSE IntToStr(n \div 10) \o <<Digit[(n % 10) + 1]>>

\* the strings over alphabet of at most n characters
RECURSIVE StringsUpTo(_, _)
StringsUpTo(alphabet, n) ==
    IF n = 0 THEN {<<>>}
    ELSE LET shorter == StringsUpTo(alphabet, n - 1) IN
         shorter \cup {Append(s, c) : s \in shorter, c \in alphabet}

----------------------------------------------------------------------------
(* urllib.parse.urlparse, as far as get_filename_from_url depends on it.   *)

LowerLetters == {"a", "b", "c", "d", "e", "f", "g", "h", "i", "j", "k", "l", "m",
                 "n", "o", "p", "q", "r", "s", "t", "u", "v", "w", "x", "y", "z"}

UpperLetters == {"A", "B", "C", "D", "E", "F", "G", "H", "I", "J", "K", "L", "M",
                 "N", "O", "P", "Q", "R", "S", "T", "U", "V", "W", "X", "Y", "Z"}

LowerPairs == {<<"A", "a">>, <<"B", "b">>, <<"C", "c">>, <<"D", "d">>, <<"E", "e">>,
               <<"F", "f">>, <<"G", "g">>, <<"H", "h">>, <<"I", "i">>, <<"J", "j">>,
               <<"K", "k">>, <<"L", "l">>, <<"M", "m">>, <<"N", "n">>, <<"O", "o">>,
               <<"P", "p">>, <<"Q", "q">>, <<"R", "r">>, <<"S", "s">>, <<"T", "t">>,
               <<"U", "u">>, <<"V", "v">>, <<"W", "w">>, <<"X", "x">>, <<"Y", "y">>,
               <<"Z", "z">>}

\* str.lower() on one character
LowerChar(c) ==
    IF c \in UpperLetters THEN (CHOOSE p \in LowerPairs : p[1] = c)[2] ELSE c

Lower(s) == [i \in 1..Len(s) |-> LowerChar(s[i])]

\* urllib.parse.scheme_chars
SchemeChars ==
    LowerLetters \cup UpperLetters
        \cup {"0", "1", "2", "3", "4", "5", "6", "7", "8", "9", "+", "-", "."}

\* urllib.parse.uses_params: the schemes whose last path segment may carry ;params
UsesParams ==
    { <<>>,
      <<"f", "t", "p">>, <<"h", "d", "l">>,
      <<"p", "r", "o", "s", "p", "e", "r", "o">>,
      <<"h", "t", "t", "p">>, <<"i", "m", "a", "p">>,
      <<"h", "t", "t", "p", "s">>, <<"s", "h", "t", "t", "p">>,
      <<"r", "t", "s", "p">>, <<"r", "t", "s", "p", "u">>,
      <<"s", "i", "p">>, <<"s", "i", "p", "s">>, <<"m", "m", "s">>,
      <<"s", "f", "t", "p">>, <<"t", "e", "l">> }

\* urlsplit's scheme detection: [scheme, rest]
SplitScheme(url) ==
    LET i == Find(url, ":", 1) IN
    IF /\ i > 1
       /\ url[1] \in LowerLetters \cup UpperLetters
       /\ \A j \in 1..(i - 1) : url[j] \in SchemeChars
    THEN [scheme |-> Lower(Before(url, i)), rest |-> From(url, i + 1)]
    ELSE [scheme |-> <<>>, rest |-> url]

\* urllib.parse._splitnetloc(url, 2): the netloc ends at the first of / ? #
SplitNetloc(url) ==
    LET ends  == {Find(url, c, 3) : c \in {"/", "?", "#"}} \ {0}
        delim == IF ends = {} THEN Len(url) + 1
                 ELSE CHOOSE e \in ends : \A f \in ends : e <= f
    IN  [netloc |-> SubSeq(url, 3, delim - 1), rest |-> From(url, delim)]

\* urlsplit's check of a netloc with an unbalanced bracket
InvalidIPv6(netloc) ==
    \/ Contains(netloc, "[") /\ ~Contains(netloc, "]")
    \/ Contains(netloc, "]") /\ ~Contains(netloc, "[")

\* url.split(c, 1)[0] when c is in url, url otherwise
CutAt(url, c) ==
    IF Contains(url, c) THEN Before(url, Find(url, c, 1)) ELSE url

\* urllib.parse._splitparams(url)[0]: the path without the last segment's ;params
SplitParams(url) ==
    LET slash == RFind(url, "/")
        i     == IF slash > 0 THEN Find(url, ";", slash) ELSE Find(url, ";", 1)
    IN  IF i = 0 THEN url ELSE Before(url, i)

\* urlparse(url): [raised, path]; raised stands for ValueError("Invalid IPv6 URL")
urlparse(url) ==
    LET s       == SplitScheme(url)
        hasNet  == Len(s.rest) >= 2 /\ SubSeq(s.rest, 1, 2) = <<"/", "/">>
        n       == IF hasNet THEN SplitNetloc(s.rest)
                   ELSE [netloc |-> <<>>, rest |-> s.rest]
        noFrag  == CutAt(n.rest, "#")
        noQuery == CutAt(noFrag, "?")
        path    == IF s.scheme \in UsesParams /\ Contains(noQuery, ";")
                   THEN SplitParams(noQuery) ELSE noQuery
    IN  IF hasNet /\ InvalidIPv6(n.netloc)
        THEN [raised |-> TRUE, path |-> <<>>]
        ELSE [raised |-> FALSE, path |-> path]

\* os.path.basename(p)
basename(p) == From(p, RFind(p, "/") + 1)

\* the fallback name "downloaded_image.jpg"
FallbackName ==
    <<"d", "o", "w", "n", "l", "o", "a", "d", "e", "d", "_",
      "i", "m", "a", "g", "e", ".", "j", "p", "g">>

\* get_filename_from_url(url): [raised, value]
get_filename_from_url(url) ==
    LET parsed_url == urlparse(url) IN
    IF parsed_url.raised THEN [raised |-> TRUE, value |-> <<>>]
    ELSE LET filename == basename(parsed_url.path) IN
         IF filename = <<>> \/ ~Contains(filename, ".")
         THEN [raised |-> FALSE, value |-> FallbackName]
         ELSE [raised |-> FALSE, value |-> filename]

----------------------------------------------------------------------------
(* safe_filename.                                                          *)

\* os.path.splitext(p): [name, ext]; the extension starts at the last dot,
\* unless only dots precede that dot in the last path component
splitext(p) ==
    LET sepIndex == RFind(p, "/")
        dotIndex == RFind(p, ".")
    IN  IF /\ dotIndex > sepIndex
           /\ \E k \in (sepIndex + 1)..(dotIndex - 1) : p[k] # "."
        THEN [name |-> Before(p, dotIndex), ext |-> From(p, dotIndex)]
        ELSE [name |-> p, ext |-> <<>>]

\* (Path(directory) / filename).exists(), directory being an existing directory
\* whose entries are named names: "." and ".." resolve to directories
PathExists(names, filename) ==
    filename \in names \cup {<<".">>, <<".", ".">>}

\* f"{name}_{counter}{ext}"
NewFilename(name, counter, ext) == name \o <<"_">> \o IntToStr(counter) \o ext

\* the first counter of the while loop, counter = 1
FirstCounter == 1

\* a probe that takes the first candidate without looking
ProbeOnce(names, name, ext, counter) == NewFilename(name, counter, ext)

\* the while True loop of safe_filename, entered with the given counter
RECURSIVE ProbeLoop(_, _, _, _)
ProbeLoop(names, name, ext, counter) ==
    LET new_filename == NewFilename(name, counter, ext) IN
    IF ~PathExists(names, new_filename) THEN new_filename
    ELSE ProbeLoop(names, name, ext, counter + 1)

\* a resolver that never renames
KeepFilename(names, filename) == filename

\* safe_filename(directory, filename), names being the directory's entries
safe_filename(names, filename) ==
    IF PathExists(names, filename)
    THEN LET s == splitext(filename) IN ProbeLoop(names, s.name, s.ext, FirstCounter)
    ELSE filename

----------------------------------------------------------------------------
(* The directory, the HTTP response and the environment of one call.       *)

\* an entry of the directory: a regular file or a subdirectory
FileEntry(content, readable) ==
    [kind |-> "file", content |-> content, readable |-> readable]

SubdirEntry == [kind |-> "dir", content |-> <<>>, readable |-> TRUE]

EmptyDir == [n \in {} |-> SubdirEntry]

\* the directory fs with the entry e under name
WithEntry(fs, name, e) ==
    [n \in (DOMAIN fs) \cup {name} |-> IF n = name THEN e ELSE fs[n]]

\* a test that takes every entry for something other than a regular file
IsFileNever(fs, n) == FALSE

\* existing_file.is_file()
is_file(fs, n) == fs[n].kind = "file"

\* the byte value the response bodies are made of
BodyBytes == {1}

\* the response bodies of the model: the byte strings of at most MaxBodyLen bytes
Bodies == StringsUpTo(BodyBytes, MaxBodyLen)

\* hashlib.md5(data).hexdigest(): a fixed function of the bytes into a finite
\* range, so not one-to-one.  The stand-in folds the bytes into DigestRange
\* values, which puts colliding byte strings among the bodies of the model.
RECURSIVE Md5From(_, _)
Md5From(h, data) ==
    IF data = <<>> THEN h
    ELSE Md5From((h * 3 + Head(data)) % DigestRange, Tail(data))

Md5(data) == Md5From(0, data)

ImagePng == <<"i", "m", "a", "g", "e", "/", "p", "n", "g">>

TextHtml == <<"t", "e", "x", "t", "/", "h", "t", "m", "l">>

ImagePrefix == <<"i", "m", "a", "g", "e", "/">>

NoHeaders == [h \in {} |-> <<>>]

WithContentType(ct) == [h \in {"Content-Type"} |-> ct]

\* response.headers.get(key, default)
HeaderGet(headers, key, default) ==
    IF key \in DOMAIN headers THEN headers[key] ELSE default

\* What the world outside the program does during one call of fetch_image:
\*   mkdirFails       os.makedirs cannot create the missing directory
\*   kind             "transport": requests.get raises; "status": the status is
\*                    not 2xx; "ok": a 2xx response with headers and body
\*   bodyFails        reading the streamed body (response.content) raises
\*   unreadableFirst  iterdir() yields an unreadable file before a matching one
\*   write            "ok"; "open": open(filepath, 'wb') raises; "partial":
\*                    f.write raises after cut bytes reached the new file
DefaultEnv ==
    [mkdirFails |-> FALSE, kind |-> "ok", headers |-> WithContentType(ImagePng),
     body |-> <<>>, bodyFails |-> FALSE, unreadableFirst |-> FALSE,
     write |-> "ok", cut |-> 0]

\* The environments that differ in something the call can run into: os.makedirs
\* can fail only on a missing directory, and the order of iterdir() matters
\* only with an unreadable regular file in the directory.
Envs(dirE, fs) ==
    LET orders == IF \E n \in DOMAIN fs : is_file(fs, n) /\ ~fs[n].readable
                  THEN BOOLEAN ELSE {FALSE}
    IN  (IF dirE THEN {} ELSE {[DefaultEnv EXCEPT !.mkdirFails = TRUE]})
        \cup {[DefaultEnv EXCEPT !.kind = k] : k \in {"transport", "status"}}
        \cup {[DefaultEnv EXCEPT !.headers = h] :
                 h \in {NoHeaders, WithContentType(TextHtml)}}
        \cup {[DefaultEnv EXCEPT !.bodyFails = TRUE]}
        \cup {[DefaultEnv EXCEPT !.body = b, !.unreadableFirst = u, !.write = w] :
                 b \in Bodies, u \in orders, w \in {"ok", "open"}}
        \cup UNION {{[DefaultEnv EXCEPT !.body = b, !.unreadableFirst = u,
                                        !.write = "partial", !.cut = k] :
                        u \in orders, k \in 0..(Len(b) - 1)} : b \in Bodies}

----------------------------------------------------------------------------
(* fetch_image.                                                            *)

\* the result of a call that has not got anywhere yet
Started(url, dirE, fs) ==
    [raised |-> FALSE, msg |-> "none", error |-> "none",
     dirExists |-> dirE, files |-> fs,
     name |-> <<>>, ctype |-> <<>>, image |-> FALSE, bodyRead |-> FALSE, body |-> <<>>]

\* a handler that catches the RequestException only: anything else leaves the call
CatchRequestOnly(r, exc, error) ==
    IF exc = "RequestException"
    THEN [r EXCEPT !.msg = "connection_error", !.error = error]
    ELSE [r EXCEPT !.raised = TRUE, !.error = error]

\* The two except clauses: a RequestException prints the connection error, any
\* other Exception prints the unexpected error; neither re-raises.
Catch(r, exc, error) ==
    IF exc = "RequestException"
    THEN [r EXCEPT !.msg = "connection_error", !.error = error]
    ELSE [r EXCEPT !.msg = "unexpected_error", !.error = error]

\* content_type.startswith("image/")
IsImage(content_type) == StartsWith(content_type, ImagePrefix)

\* a scan that reads every file and compares nothing
ScanWithoutCompare(fs, body, unreadableFirst) ==
    IF \E n \in DOMAIN fs : fs[n].kind = "file" /\ ~fs[n].readable
    THEN "raise" ELSE "none"

\* The loop over Path(directory).iterdir(): "dup" when a regular file with the
\* digest of body is reached, "raise" when open() of an unreadable regular file
\* is reached first, "none" when the loop ends.  iterdir() yields the entries
\* in arbitrary order, so with both kinds of file present either may come first.
ScanDuplicates(fs, body, unreadableFirst) ==
    LET regular    == {n \in DOMAIN fs : is_file(fs, n)}
        matching   == {n \in regular : fs[n].readable /\ Md5(fs[n].content) = Md5(body)}
        unreadable == {n \in regular : ~fs[n].readable}
    IN  IF unreadable = {} THEN (IF matching = {} THEN "none" ELSE "dup")
        ELSE IF matching = {} THEN "raise"
        ELSE IF unreadableFirst THEN "raise" ELSE "dup"

\* a duplicate branch reached only after the body has been written
DuplicateSkippedAfterWrite(r, filename, body) ==
    [r EXCEPT !.files = WithEntry(r.files, filename, FileEntry(body, TRUE)),
              !.msg = "duplicate"]

\* the duplicate branch: the message is printed and the call returns
DuplicateSkipped(r, filename, body) == [r EXCEPT !.msg = "duplicate"]

\* a write after the stream has been consumed: the new file is left empty
WriteFileEmpty(r, filename, body, write, cut) ==
    IF write = "open" THEN Catch(r, "OSError", "open")
    ELSE IF write = "partial"
    THEN Catch([r EXCEPT !.files = WithEntry(r.files, filename, FileEntry(<<>>, TRUE))],
               "OSError", "write")
    ELSE [r EXCEPT !.files = WithEntry(r.files, filename, FileEntry(<<>>, TRUE)),
                   !.msg = "fetched"]

\* with open(filepath, 'wb') as f: f.write(response.content), and the two prints
WriteFile(r, filename, body, write, cut) ==
    IF write = "open" THEN Catch(r, "OSError", "open")
    ELSE IF write = "partial"
    THEN Catch([r EXCEPT !.files = WithEntry(r.files, filename,
                                             FileEntry(SubSeq(body, 1, cut), TRUE))],
               "OSError", "write")
    ELSE [r EXCEPT !.files = WithEntry(r.files, filename, FileEntry(body, TRUE)),
                   !.msg = "fetched"]

\* lines 52-67: the duplicate check, then the write
CheckAndWrite(r, fs, filename, env) ==
    LET scan == ScanDuplicates(fs, env.body, env.unreadableFirst) IN
    IF scan = "raise" THEN Catch(r, "OSError", "read")
    ELSE IF scan = "dup" THEN DuplicateSkipped(r, filename, env.body)
    ELSE WriteFile(r, filename, env.body, env.write, env.cut)

\* lines 48-53: the unique name, then the body is read from the stream
NameAndBody(r, fs, resolved, env) ==
    LET filename == safe_filename(DOMAIN fs, resolved) IN
    IF env.bodyFails
    THEN Catch([r EXCEPT !.name = filename], "RequestException", "body")
    ELSE CheckAndWrite([r EXCEPT !.name = filename, !.bodyRead = TRUE, !.body = env.body],
                       fs, filename, env)

\* lines 40-47: the content-type check, then the name from the URL
CheckType(r, url, fs, content_type, env) ==
    IF ~IsImage(content_type)
    THEN [r EXCEPT !.ctype = content_type, !.image = FALSE, !.msg = "not_image"]
    ELSE LET resolved == get_filename_from_url(url) IN
         IF resolved.raised
         THEN Catch([r EXCEPT !.ctype = content_type, !.image = TRUE], "ValueError", "name")
         ELSE NameAndBody([r EXCEPT !.ctype = content_type, !.image = TRUE],
                          fs, resolved.value, env)

\* lines 37-41: requests.get, raise_for_status, the Content-Type header
Request(r, url, fs, env) ==
    IF env.kind = "transport" THEN Catch(r, "RequestException", "transport")
    ELSE IF env.kind = "status" THEN Catch(r, "RequestException", "status")
    ELSE CheckType(r, url, fs, HeaderGet(env.headers, "Content-Type", <<>>), env)

\* fetch_image(url) on the directory (dirE, fs) in the environment env
fetch_image(url, env, dirE, fs) ==
    IF ~dirE /\ env.mkdirFails
    THEN Catch(Started(url, dirE, fs), "OSError", "mkdir")
    ELSE Request([Started(url, dirE, fs) EXCEPT !.dirExists = TRUE], url, fs, env)

----------------------------------------------------------------------------
(* main.                                                                   *)

Whitespace == {" ", "\t"}

\* str.split(sep): the pieces between the separators, empty pieces included
RECURSIVE Split(_, _)
Split(s, sep) ==
    LET i == Find(s, sep, 1) IN
    IF i = 0 THEN <<s>> ELSE <<Before(s, i)>> \o Split(From(s, i + 1), sep)

\* str.strip()
RECURSIVE Strip(_)
Strip(s) ==
    IF s = <<>> THEN s
    ELSE IF Head(s) \in Whitespace THEN Strip(Tail(s))
    ELSE IF s[Len(s)] \in Whitespace THEN Strip(Before(s, Len(s)))
    ELSE s

\* [u.strip() for u in urls if u.strip()]
RECURSIVE StripAndFilter(_)
StripAndFilter(pieces) ==
    IF pieces = <<>> THEN <<>>
    ELSE LET u == Strip(Head(pieces)) IN
         (IF u # <<>> THEN <<u>> ELSE <<>>) \o StripAndFilter(Tail(pieces))

\* a parse that splits and strips but keeps the empty pieces
RECURSIVE StripOnly(_)
StripOnly(pieces) ==
    IF pieces = <<>> THEN <<>>
    ELSE <<Strip(Head(pieces))>> \o StripOnly(Tail(pieces))

ParseKeepEmpty(line) == StripOnly(Split(line, ","))

\* the two assignments to urls
ParseInput(line) == StripAndFilter(Split(line, ","))

NoCall == [fn |-> "none", url |-> <<>>, names |-> {}, stem |-> <<>>, ext |-> <<>>]

NoRet == [done |-> FALSE, raised |-> FALSE, value |-> <<>>]

NoLast ==
    [called |-> FALSE, url |-> <<>>, before |-> EmptyDir, dirBefore |-> FALSE,
     raised |-> FALSE, msg |-> "none", error |-> "none", name |-> <<>>,
     ctype |-> <<>>, image |-> FALSE, bodyRead |-> FALSE, body |-> <<>>]

\* the record of a call from its result
Trace(url, dirE, fs, r) ==
    [called |-> TRUE, url |-> url, before |-> fs, dirBefore |-> dirE,
     raised |-> r.raised, msg |-> r.msg, error |-> r.error, name |-> r.name,
     ctype |-> r.ctype, image |-> r.image, bodyRead |-> r.bodyRead, body |-> r.body]

UrlP == <<"h", "t", "t", "p", ":", "/", "/", "h", "/", "p", ".", "g">>

UrlQ == <<"h", "t", "t", "p", ":", "/", "/", "h", "/", "q">>

NameP == <<"p", ".", "g">>

NameP1 == <<"p", "_", "1", ".", "g">>

\* what the user may type between two commas
RawItems == {UrlP, <<" ">> \o UrlQ \o <<"\t">>, <<>>, <<" ">>}

RECURSIVE Join(_)
Join(items) ==
    IF Len(items) = 1 THEN items[1]
    ELSE items[1] \o <<",">> \o Join(Tail(items))

InputLines ==
    UNION {{Join(items) : items \in [1..n -> RawItems]} : n \in 1..MaxItems}

InitEntries ==
    {FileEntry(<<>>, TRUE), FileEntry(<<2>>, TRUE), FileEntry(<<1>>, FALSE), SubdirEntry}

\* the directory before the run: absent, or present with some of two names taken
InitDirs ==
    {[exists |-> FALSE, files |-> EmptyDir]}
    \cup UNION {{[exists |-> TRUE, files |-> f] : f \in [S -> InitEntries]} :
                   S \in SUBSET {NameP, NameP1}}

Init ==
    /\ pc = "input"
    /\ inputLine \in InputLines
    /\ urls = <<>>
    /\ idx = 0
    /\ calls = <<>>
    /\ closing = 0
    /\ \E d \in InitDirs :
          /\ dirExists = d.exists
          /\ files = d.files
          /\ files0 = d.files
    /\ torn = FALSE
    /\ last = NoLast
    /\ call = NoCall
    /\ ret = NoRet

\* urls = input(...).split(","), then the strip and filter
ReadInput ==
    /\ pc = "input"
    /\ urls' = ParseInput(inputLine)
    /\ inputLine' = <<>>
    /\ pc' = "loop"
    /\ UNCHANGED <<idx, calls, closing, dirExists, files, files0, torn, last, helperVars>>

\* one iteration of "for url in urls: fetch_image(url)"
Fetch ==
    /\ pc = "loop"
    /\ idx < Len(urls)
    /\ \E env \in Envs(dirExists, files) :
          LET url == urls[idx + 1]
              r   == fetch_image(url, env, dirExists, files)
          IN  /\ calls' = Append(calls, url)
              /\ dirExists' = r.dirExists
              /\ files' = r.files
              /\ torn' = (torn \/ r.error = "write")
              /\ last' = Trace(url, dirExists, files, r)
              /\ idx' = idx + 1
              /\ pc' = IF r.raised THEN "crashed" ELSE "loop"
    /\ UNCHANGED <<inputLine, urls, closing, files0, helperVars>>

\* the loop is over: the closing message
Finish ==
    /\ pc = "loop"
    /\ idx = Len(urls)
    /\ closing' = closing + 1
    /\ pc' = "done"
    /\ UNCHANGED <<inputLine, urls, idx, calls, dirExists, files, files0, torn, last,
                   helperVars>>

Next == ReadInput \/ Fetch \/ Finish

Spec == Init /\ [][Next]_vars

\* the pipeline's variables while a pure helper is exercised
PipelineIdle ==
    /\ pc = "done"
    /\ inputLine = <<>>
    /\ urls = <<>>
    /\ idx = 0
    /\ calls = <<>>
    /\ closing = 0
    /\ dirExists = FALSE
    /\ files = EmptyDir
    /\ files0 = EmptyDir
    /\ torn = FALSE
    /\ last = NoLast

----------------------------------------------------------------------------
(* Calls of the two pure helpers on inputs drawn from bounded sets.        *)

UrlAlphabet == {"a", ".", "/", ":", "?", "#", ";", "["}

UrlPrefixes ==
    { <<>>,
      <<"h", "t", "t", "p", ":">>,
      <<"H", "t", "t", "p", ":", "/", "/", "h">> }

UrlInputs == {p \o t : p \in UrlPrefixes, t \in StringsUpTo(UrlAlphabet, MaxTail)}

InitName ==
    /\ PipelineIdle
    /\ \E u \in UrlInputs :
          call = [NoCall EXCEPT !.fn = "get_filename_from_url", !.url = u]
    /\ ret = NoRet

CallName ==
    /\ call.fn = "get_filename_from_url"
    /\ ~ret.done
    /\ LET r == get_filename_from_url(call.url) IN
       ret' = [done |-> TRUE, raised |-> r.raised, value |-> r.value]
    /\ UNCHANGED <<call, pipelineVars>>

SpecName == InitName /\ [][CallName]_vars

\* filenames as a stem and an extension ("" or a dot and a dot-free suffix)
StemExtPairs ==
    { <<<<"a">>, <<".", "p">>>>,
      <<<<"a", "_", "1">>, <<".", "p">>>>,
      <<<<"a", ".", "b">>, <<".", "p">>>>,
      <<<<".", "a">>, <<>>>>,
      <<<<"a">>, <<>>>> }

\* stem ext for k = 0, stem_k ext for k >= 1
Suffixed(p, k) == IF k = 0 THEN p[1] \o p[2] ELSE p[1] \o <<"_">> \o IntToStr(k) \o p[2]

SafePool(p) ==
    {Suffixed(p, k) : k \in 0..MaxSuffix} \cup {Suffixed(q, 0) : q \in StemExtPairs}

InitSafe ==
    /\ PipelineIdle
    /\ \E p \in StemExtPairs : \E d \in SUBSET SafePool(p) :
          call = [NoCall EXCEPT !.fn = "safe_filename", !.names = d,
                                !.stem = p[1], !.ext = p[2]]
    /\ ret = NoRet

CallSafe ==
    /\ call.fn = "safe_filename"
    /\ ~ret.done
    /\ ret' = [done |-> TRUE, raised |-> FALSE,
               value |-> safe_filename(call.names, call.stem \o call.ext)]
    /\ UNCHANGED <<call, pipelineVars>>

SpecSafe == InitSafe /\ [][CallSafe]_vars

----------------------------------------------------------------------------
(* Properties.                                                             *)

\* the outcome of a call, read off the status line it printed
Outcome(msg) ==
    CASE msg = "fetched" -> "Saved"
      [] msg = "not_image" -> "SkippedNotImage"
      [] msg = "duplicate" -> "SkippedDuplicate"
      [] msg \in {"connection_error", "unexpected_error"} -> "Failed"
      [] OTHER -> "None"

Outcomes == {"Saved", "SkippedNotImage", "SkippedDuplicate", "Failed"}

RegularFiles(fs) == {n \in DOMAIN fs : fs[n].kind = "file"}

\* no two regular files of fs have the same bytes
ContentUnique(fs) ==
    \A m, n \in RegularFiles(fs) : m # n => fs[m].content # fs[n].content

\* no two regular files of fs have the same digest
HashUnique(fs) ==
    \A m, n \in RegularFiles(fs) : m # n => Md5(fs[m].content) # Md5(fs[n].content)

\* every entry of fs is in gs, under the same name and unchanged
Preserved(fs, gs) == \A n \in DOMAIN fs : n \in DOMAIN gs /\ gs[n] = fs[n]

\* C1: every call of fetch_image ends with one of the four outcomes and lets no
\* exception out; it ends as Failed exactly when something failed in it.
C1_AlwaysAnOutcome ==
    /\ pc # "crashed"
    /\ last.called =>
          /\ ~last.raised
          /\ Outcome(last.msg) \in Outcomes
          /\ (last.error # "none") <=> (Outcome(last.msg) = "Failed")

\* a call in which a file of the directory could not be read ended as Failed
C1_Witness ==
    /\ last.called
    /\ last.error = "read"
    /\ Outcome(last.msg) = "Failed"

C3_NoOverwrite ==
    /\ Preserved(files0, files)
    /\ last.called =>
          /\ Preserved(last.before, files)
          /\ files # last.before =>
                /\ last.name \notin DOMAIN last.before
                /\ DOMAIN files = (DOMAIN last.before) \cup {last.name}

\* the name from the URL was taken, and the image was saved under the next one
C3_Witness ==
    /\ last.called
    /\ last.msg = "fetched"
    /\ NameP \in DOMAIN last.before
    /\ last.name = NameP1
    /\ files[NameP] = last.before[NameP]

\* the call being made is for the URL of the call before it, which saved its
\* image, and the response is the same 2xx image response with the same body
SameFetchAgain ==
    /\ last.called
    /\ Outcome(last.msg) = "Saved"
    /\ last'.called
    /\ Len(calls') = Len(calls) + 1
    /\ last'.url = last.url
    /\ last'.image
    /\ last'.bodyRead
    /\ last'.body = last.body

\* C4: a call that repeats the call before it, which saved its image, is skipped
\* as a duplicate and leaves the directory as it was: with one entry when the
\* directory was empty or absent before the first of the two.
C4_Idempotent ==
    [][SameFetchAgain =>
          /\ Outcome(last'.msg) = "SkippedDuplicate"
          /\ files' = files
          /\ (last.before = EmptyDir => Cardinality(DOMAIN files') = 1)]_vars

\* the same URL fetched twice into an empty directory: one file, then a skip
C4_Witness ==
    /\ Len(calls) = 2
    /\ calls[1] = calls[2]
    /\ files0 = EmptyDir
    /\ ~torn
    /\ last.msg = "duplicate"
    /\ last.before = files
    /\ Cardinality(DOMAIN files) = 1
    /\ \E n \in DOMAIN files : files[n].content = last.body

\* C5: a call skipped as not an image or as a duplicate, or failed by a
\* transport error or a non-2xx status, leaves every entry of the directory as
\* it was and adds none.
C5_NothingPersisted ==
    (/\ last.called
     /\ \/ Outcome(last.msg) \in {"SkippedNotImage", "SkippedDuplicate"}
        \/ Outcome(last.msg) = "Failed" /\ last.error \in {"transport", "status", "body"})
    => files = last.before

\* a duplicate was skipped in a directory that holds files
C5_Witness ==
    /\ last.called
    /\ last.msg = "duplicate"
    /\ last.before # EmptyDir
    /\ files = last.before

\* The URLs of a typed line, read character by character: cur is the item so
\* far without its leading whitespace, pend the whitespace seen after it.
RECURSIVE ItemsFrom(_, _, _)
ItemsFrom(line, cur, pend) ==
    IF line = <<>> THEN (IF cur = <<>> THEN <<>> ELSE <<cur>>)
    ELSE LET c == Head(line) IN
         IF c = "," THEN (IF cur = <<>> THEN <<>> ELSE <<cur>>) \o ItemsFrom(Tail(line), <<>>, <<>>)
         ELSE IF c \in {" ", "\t"}
         THEN ItemsFrom(Tail(line), cur, IF cur = <<>> THEN <<>> ELSE Append(pend, c))
         ELSE ItemsFrom(Tail(line), cur \o pend \o <<c>>, <<>>)

\* what every step of main keeps: the list is what was typed, no call stops
\* the loop, the calls made are the handled elements of the list in order, and
\* the closing message comes with the end of the loop
BatchStep ==
    /\ pc = "input" => urls' = ItemsFrom(inputLine, <<>>, <<>>)
    /\ pc' \in {"input", "loop", "done"}
    /\ pc' = "loop" => idx' <= Len(urls')
    /\ calls' = SubSeq(urls', 1, idx')
    /\ pc' = "done" => idx' = Len(urls') /\ closing' = 1
    /\ pc' # "done" => closing' = 0

\* C6: main calls fetch_image once for each non-empty trimmed item of the line,
\* in the order typed, whatever the outcomes; it prints the closing message once,
\* and only after the last URL.
C6_BatchInOrder == [][BatchStep]_vars

\* two URLs were fetched in the order typed: the first call failed in its write,
\* the second saved its image, and the closing message followed
C6_Witness ==
    /\ pc = "done"
    /\ closing = 1
    /\ calls = <<UrlQ, UrlP>>
    /\ torn
    /\ last.error = "none"
    /\ Outcome(last.msg) = "Saved"

\* the filename of a safe_filename call, and the name with suffix k
SafeArg == call.stem \o call.ext

SafeCandidate(k) == call.stem \o <<"_">> \o IntToStr(k) \o call.ext

\* C7: safe_filename returns a free filename unchanged, and for a taken one the
\* name stem_N.ext with the smallest N >= 1 that is free.
C7_SmallestFreeSuffix ==
    (call.fn = "safe_filename" /\ ret.done) =>
        /\ ~ret.raised
        /\ SafeArg \notin call.names => ret.value = SafeArg
        /\ SafeArg \in call.names =>
              \E N \in 1..(Cardinality(call.names) + 1) :
                 /\ ret.value = SafeCandidate(N)
                 /\ SafeCandidate(N) \notin call.names
                 /\ \A k \in 1..(N - 1) : SafeCandidate(k) \in call.names

\* the filename and its first suffix were taken: the second suffix is returned
C7_Witness ==
    /\ call.fn = "safe_filename"
    /\ ret.done
    /\ SafeArg \in call.names
    /\ SafeCandidate(1) \in call.names
    /\ ret.value = SafeCandidate(2)

\* C8: get_filename_from_url never fails and returns a non-empty name: the
\* fallback name, or a name with a dot and nothing of a query or a fragment.
C8_NeverFails ==
    (call.fn = "get_filename_from_url" /\ ret.done) =>
        /\ ~ret.raised
        /\ ret.value # <<>>
        /\ \/ ret.value = FallbackName
           \/ /\ Contains(ret.value, ".")
              /\ \A c \in {"/", "?", "#"} : ~Contains(ret.value, c)

\* C9: a file of the directory that cannot be read is skipped by the duplicate
\* check: it never turns the outcome of a call into Failed.
C9_UnreadableSkipped ==
    last.called => ~(last.error = "read" /\ Outcome(last.msg) = "Failed")

\* the response was 2xx with an image content type, its body was read, and
\* nothing failed in the call
CleanImageCall == last.called /\ last.image /\ last.bodyRead /\ last.error = "none"

\* the name fetch_image is to save the body under
ExpectedName ==
    safe_filename(DOMAIN last.before, get_filename_from_url(last.url).value)

\* the call saved the body, and only the body, as one new readable file
SavedAsNewFile ==
    /\ Outcome(last.msg) = "Saved"
    /\ ExpectedName \notin DOMAIN last.before
    /\ files = WithEntry(last.before, ExpectedName, FileEntry(last.body, TRUE))

\* C10 as stated: such a call is skipped as a duplicate exactly when a regular
\* file of the directory has the bytes of the body, and saves the body otherwise.
C10_Original ==
    CleanImageCall =>
        IF \E n \in RegularFiles(last.before) : last.before[n].content = last.body
        THEN Outcome(last.msg) = "SkippedDuplicate" /\ files = last.before
        ELSE SavedAsNewFile

\* C10 amended: such a call is skipped as a duplicate exactly when a regular
\* file of the directory has the MD5 digest of the body, and saves the body
\* otherwise.
C10_DuplicateByDigest ==
    CleanImageCall =>
        IF \E n \in RegularFiles(last.before) :
              Md5(last.before[n].content) = Md5(last.body)
        THEN Outcome(last.msg) = "SkippedDuplicate" /\ files = last.before
        ELSE SavedAsNewFile

\* a body was saved under a suffixed name next to a file with other bytes
C10_Witness ==
    /\ CleanImageCall
    /\ Outcome(last.msg) = "Saved"
    /\ RegularFiles(last.before) # {}
    /\ last.name = NameP1
    /\ files[NameP1].content = last.body
    /\ last.body # <<>>

====
